---- MODULE Spec2Model ----
(***************************************************************************)
(* Model of src/src/uci.cpp: the command loop UCI::loop, the reply policy  *)
(* start_thinking, the two move appliers make_initial_move and             *)
(* move_and_counter, and the move codec UCI::move / UCI::to_antichess_move.*)
(*                                                                         *)
(* Text is a sequence of one-character strings, so that tokenising,        *)
(* lower-casing and comparing are computed and not assumed.                *)
(***************************************************************************)
EXTENDS Integers, Sequences, FiniteSets, TLC

(***************************************************************************)
(* Bounds of the model.                                                    *)
(***************************************************************************)
\* longest legal-move list of a position given to the codec and the selector
MaxLegal == 2
\* longest capture list of a position given to the codec and the selector
MaxCaptures == 2
\* the loop accepts an opponent move only while the reply keeps gamePly <= MaxPly
MaxPly == 4

(***************************************************************************)
(* Characters.                                                             *)
(***************************************************************************)
UpperChars == <<"A","B","C","D","E","F","G","H","I","J","K","L","M",
                "N","O","P","Q","R","S","T","U","V","W","X","Y","Z">>

LowerChars == <<"a","b","c","d","e","f","g","h","i","j","k","l","m",
                "n","o","p","q","r","s","t","u","v","w","x","y","z">>

\* tolower() of <cctype> in the "C" locale
ToLower(c) ==
    IF \E i \in 1..26 : UpperChars[i] = c
    THEN LowerChars[CHOOSE i \in 1..26 : UpperChars[i] = c]
    ELSE c

\* the characters operator>> with skipws treats as separators
IsSpace(c) == c \in {" ", "\t"}

(***************************************************************************)
(* Squares and moves.  A square is 0..63, a1 = 0, h1 = 7, a8 = 56.         *)
(***************************************************************************)
FILE_C == 2

FILE_G == 6

file_of(s) == s % 8

rank_of(s) == s \div 8

make_square(f, r) == r * 8 + f

MoveTypes == {"NORMAL", "PROMOTION", "EN_PASSANT", "CASTLING"}

\* a move: origin, destination, kind, and the piece-type index of the
\* promotion piece (2 knight, 3 bishop, 4 rook, 5 queen; 2 when unused)
MakeMove(f, t, ty, pt) == [from |-> f, to |-> t, type |-> ty, promo |-> pt]

MOVE_NONE == MakeMove(0, 0, "NORMAL", 2)

MOVE_NULL == MakeMove(1, 1, "NORMAL", 2)

from_sq(m) == m.from

to_sq(m) == m.to

type_of(m) == m.type

promotion_type(m) == m.promo

(***************************************************************************)
(* UCI::square and UCI::move.                                              *)
(***************************************************************************)
FileChars == <<"a","b","c","d","e","f","g","h">>

RankChars == <<"1","2","3","4","5","6","7","8">>

\* the string literal " pnbrqk" indexed from 0
PromoChars == <<" ","p","n","b","r","q","k">>

square(s) == <<FileChars[file_of(s) + 1], RankChars[rank_of(s) + 1]>>

NoneText == <<"(","n","o","n","e",")">>

NullText == <<"0","0","0","0">>

\* castling rendered one file short of the conventional target
RenderedTo_OneShort(m, chess960) ==
    IF type_of(m) = "CASTLING" /\ ~chess960
    THEN make_square(IF to_sq(m) > from_sq(m) THEN FILE_G - 1 ELSE FILE_C + 1,
                     rank_of(from_sq(m)))
    ELSE to_sq(m)

\* the two castling targets exchanged
RenderedTo_Swapped(m, chess960) ==
    IF type_of(m) = "CASTLING" /\ ~chess960
    THEN make_square(IF to_sq(m) < from_sq(m) THEN FILE_G ELSE FILE_C,
                     rank_of(from_sq(m)))
    ELSE to_sq(m)

\* the destination UCI::move renders
RenderedTo(m, chess960) ==
    IF type_of(m) = "CASTLING" /\ ~chess960
    THEN make_square(IF to_sq(m) > from_sq(m) THEN FILE_G ELSE FILE_C,
                     rank_of(from_sq(m)))
    ELSE to_sq(m)

move(m, chess960) ==
    IF m = MOVE_NONE THEN NoneText
    ELSE IF m = MOVE_NULL THEN NullText
    ELSE square(from_sq(m)) \o square(RenderedTo(m, chess960))
         \o (IF type_of(m) = "PROMOTION"
             THEN <<PromoChars[promotion_type(m) + 1]>>
             ELSE <<>>)

(***************************************************************************)
(* UCI::to_antichess_move.                                                 *)
(***************************************************************************)
\* the token compared as it was typed
LowerPromotion_None(str) == str

\* the token after the promotion character has been lower-cased in place
LowerPromotion(str) ==
    IF Len(str) = 5 THEN [str EXCEPT ![5] = ToLower(str[5])] ELSE str

\* the first move of list whose text equals str, MOVE_NONE if there is none
FirstMatch(list, str, chess960) ==
    IF \E i \in 1..Len(list) : move(list[i], chess960) = str
    THEN list[CHOOSE i \in 1..Len(list) :
                 /\ move(list[i], chess960) = str
                 /\ \A j \in 1..(i-1) : move(list[j], chess960) # str]
    ELSE MOVE_NONE

\* the decoder without its second pass over the capture moves
to_antichess_move_LegalOnly(p, str) ==
    FirstMatch(p.legal, LowerPromotion(str), p.chess960)

to_antichess_move(p, str) ==
    LET s  == LowerPromotion(str)
        ml == FirstMatch(p.legal, s, p.chess960)
    IN  IF ml # MOVE_NONE THEN ml
        ELSE FirstMatch(p.captures, s, p.chess960)

(***************************************************************************)
(* start_thinking.  Abort, a value off the board, stands for the process    *)
(* dying in the division rand() % rootMoves.size() when rootMoves is empty.*)
(***************************************************************************)
Abort == MakeMove(64, 64, "NORMAL", 2)

\* the capture moves that are also legal, in capture-list order
RootCaptures(p) ==
    SelectSeq(p.captures, LAMBDA m : \E i \in 1..Len(p.legal) : p.legal[i] = m)

SeqRange(s) == {s[i] : i \in 1..Len(s)}

\* start_thinking without the test that a capture is legal
StartThinkingOutcomes_Unfiltered(p) ==
    LET rootMoves == IF p.captures = <<>> THEN p.legal ELSE p.captures
    IN  IF Len(rootMoves) = 0
        THEN {Abort, MOVE_NONE}
        ELSE {rootMoves[(r % Len(rootMoves)) + 1] : r \in 0..(Len(rootMoves) - 1)}

\* start_thinking choosing among all legal moves whenever there is one
StartThinkingOutcomes_NoPreference(p) ==
    IF Len(p.legal) = 0
    THEN IF Len(p.captures) # 0 THEN {p.captures[1]} ELSE {Abort, MOVE_NONE}
    ELSE {p.legal[(r % Len(p.legal)) + 1] : r \in 0..(Len(p.legal) - 1)}

\* every value start_thinking can return for position p, over all values
\* of rand(); the division by zero is undefined: it traps, or it yields a
\* value that is never used and MOVE_NONE is returned
StartThinkingOutcomes(p) ==
    LET filtered  == RootCaptures(p)
        rootMoves == IF filtered = <<>> THEN p.legal ELSE filtered
    IN  IF filtered = <<>> /\ Len(p.captures) # 0
        THEN {p.captures[1]}
        ELSE IF Len(rootMoves) = 0
             THEN {Abort, MOVE_NONE}
             ELSE {rootMoves[(r % Len(rootMoves)) + 1] : r \in 0..(Len(rootMoves) - 1)}

(***************************************************************************)
(* Positions.  The board and the move generator are collaborators of       *)
(* uci.cpp; a position is what uci.cpp observes of it: gamePly, the side   *)
(* to move, the castling-mode flag, and the two generated move lists       *)
(* MoveList<LEGAL>(pos) and MoveList<CAPTURES>(pos), in generation order.  *)
(***************************************************************************)
e2e4 == MakeMove(12, 28, "NORMAL", 2)

d4e5 == MakeMove(27, 36, "NORMAL", 2)

\* the king steps from e1 to f1
e1f1 == MakeMove(4, 5, "NORMAL", 2)

\* a rook or queen slides from e1 to g1
e1g1 == MakeMove(4, 6, "NORMAL", 2)

\* castling is always "king takes own rook"
e1h1 == MakeMove(4, 7, "CASTLING", 2)

e1a1 == MakeMove(4, 0, "CASTLING", 2)

a7a8q == MakeMove(48, 56, "PROMOTION", 5)

a7a8n == MakeMove(48, 56, "PROMOTION", 2)

MoveUniverse == {d4e5, e1f1, e1g1, e1h1, e1a1, a7a8q, a7a8n}

\* black's castling moves
e8h8 == MakeMove(60, 63, "CASTLING", 2)

e8a8 == MakeMove(60, 56, "CASTLING", 2)

\* the moves given to UCI::move on its own
EncodeMoves == MoveUniverse \cup {e2e4, e8h8, e8a8}

\* king distance of two squares
Distance(a, b) ==
    LET df == IF file_of(a) > file_of(b) THEN file_of(a) - file_of(b)
              ELSE file_of(b) - file_of(a)
        dr == IF rank_of(a) > rank_of(b) THEN rank_of(a) - rank_of(b)
              ELSE rank_of(b) - rank_of(a)
    IN  IF df > dr THEN df ELSE dr

\* what the rules of the game make true of the moves generated for one
\* position: two moves share origin and destination only as promotions to
\* different pieces, and the piece on the origin of a castling move is the
\* king, whose other moves are single steps
GeneratedTogether(S) ==
    /\ \A a, b \in S :
          (a # b /\ from_sq(a) = from_sq(b) /\ to_sq(a) = to_sq(b))
             => (type_of(a) = "PROMOTION" /\ type_of(b) = "PROMOTION")
    /\ \A c, n \in S :
          (type_of(c) = "CASTLING" /\ type_of(n) # "CASTLING"
              /\ from_sq(n) = from_sq(c))
             => Distance(from_sq(n), to_sq(n)) = 1

\* the duplicate-free lists over S of length at most n
ListsUpTo(S, n) ==
    UNION { { l \in [1..k -> S] : \A i, j \in 1..k : l[i] = l[j] => i = j }
            : k \in 0..n }

MakePosition(ply, stm, chess960, legal, captures) ==
    [ply |-> ply, stm |-> stm, chess960 |-> chess960,
     legal |-> legal, captures |-> captures]

\* the positions handed to the selector and the codec on their own
FnPositions ==
    { p \in { MakePosition(0, "w", f, l, c) :
                f \in BOOLEAN,
                l \in ListsUpTo(MoveUniverse, MaxLegal),
                c \in ListsUpTo(MoveUniverse, MaxCaptures) } :
        GeneratedTogether(SeqRange(p.legal) \cup SeqRange(p.captures)) }

\* the move lists of the positions met in a game: a quiet position, one
\* with a legal capture, one whose only capture is not legal, the two
\* terminal ones (with and without a raw capture), one with castling and
\* promotions, one where castling can be the reply
GameLists ==
    { [legal |-> <<e2e4, e1f1>>,               captures |-> <<>>],
      [legal |-> <<e2e4, d4e5>>,               captures |-> <<d4e5>>],
      [legal |-> <<e2e4>>,                     captures |-> <<d4e5>>],
      [legal |-> <<>>,                         captures |-> <<d4e5>>],
      [legal |-> <<>>,                         captures |-> <<>>],
      [legal |-> <<e1h1, e1f1, a7a8q, a7a8n>>, captures |-> <<a7a8q>>],
      [legal |-> <<e1h1, e1f1>>,               captures |-> <<>>] }

\* the standard starting position of StartFEN: white to move, moves
\* available, nothing to capture
StartLists == [legal |-> <<e2e4, e1f1>>, captures |-> <<>>]

StartPos == MakePosition(0, "w", FALSE, StartLists.legal, StartLists.captures)

Other(c) == IF c = "w" THEN "b" ELSE "w"

\* Position::do_move: one more ply, the other side to move; next holds the
\* move lists the generator produces for the resulting position
do_move(p, mv, next) ==
    MakePosition(p.ply + 1, Other(p.stm), p.chess960, next.legal, next.captures)

\* Position::set(pos.fen(), chess960, ...): the same position, in the
\* castling mode passed
set_fen(p, chess960) == [p EXCEPT !.chess960 = chess960]

(***************************************************************************)
(* Input lines and printed lines.                                          *)
(***************************************************************************)
QuitText == <<"q","u","i","t">>

WhiteText == <<"w","h","i","t","e">>

BlackText == <<"b","l","a","c","k">>

SkipText == <<"s","k","i","p">>

\* the string literal "Unknown command: '"
UnknownPrefix == <<"U","n","k","n","o","w","n"," ",
                   "c","o","m","m","a","n","d",":"," ","'">>

\* is >> skipws >> token, after token.clear(): the first word of the line
FirstToken(line) ==
    IF \A i \in 1..Len(line) : IsSpace(line[i]) THEN <<>>
    ELSE LET b == CHOOSE i \in 1..Len(line) :
                     /\ ~IsSpace(line[i])
                     /\ \A j \in 1..(i-1) : IsSpace(line[j])
             e == IF \E i \in b..Len(line) : IsSpace(line[i])
                  THEN (CHOOSE i \in b..Len(line) :
                           /\ IsSpace(line[i])
                           /\ \A j \in b..(i-1) : ~IsSpace(line[j])) - 1
                  ELSE Len(line)
         IN  SubSeq(line, b, e)

\* the lines the opponent sends
InputLines ==
    { QuitText, WhiteText, BlackText,
      <<>>, <<" ">>, <<" "," ","\t">>,
      <<"#"," ","a"," ","c","o","m","m","e","n","t">>, <<"#","q","u","i","t">>,
      <<"f","o","o","b","a","r">>, <<"f","o","o"," ","b","a","r">>,
      <<"q","u","i","t","x">>, <<"q","u","i","t"," ","n","o","w">>,
      <<" ","q","u","i","t">>, <<"w","h","i","t","e"," ","x">>,
      <<"w","h","i","t","E">>, <<"E","2","e","4">>,
      <<"a","7","a","8","Q">>, <<" ","e","2","e","4"," ","x">>,
      <<"(","n","o","n","e",")">>, <<"0","0","0","0">> }
    \cup { move(mv, f) : mv \in MoveUniverse \cup {e2e4}, f \in BOOLEAN }

\* the texts given to UCI::to_antichess_move on its own: every text of a
\* move, and texts differing from one by the case of a character, by a
\* missing promotion letter, or empty
DecodeTexts ==
    { move(mv, f) : mv \in MoveUniverse, f \in BOOLEAN }
    \cup { <<"a","7","a","8","Q">>, <<"a","7","a","8","N">>,
           <<"A","7","a","8","q">>, <<"E","1","g","1">>,
           <<"a","7","a","8">>, <<>> }

\* getline without the substitution: an exhausted channel reads as a blank line
GetLine_NoQuit(eofHit, line) == line

\* what getline(cin, cmd) and the substitution after it leave in cmd:
\* the line read, or "quit" when the read failed
GetLine(eofHit, line) == IF eofHit THEN QuitText ELSE line

(***************************************************************************)
(* State.                                                                  *)
(***************************************************************************)
VARIABLES
    pc,            \* "start", "read" (blocked in getline), "done", "aborted"
    us,            \* argv[1]
    UCI_Chess960,  \* Options["UCI_Chess960"]
    pos,           \* Position pos
    states,        \* StateListPtr states: gamePly of each StateInfo
    cmd,           \* the line being processed
    token,         \* its first word
    m,             \* Move m of UCI::loop
    eof,           \* the last getline failed
    out,           \* the lines printed while processing the last line
    decoded,       \* to_antichess_move was called for the last line
    thought,       \* calls of start_thinking for the last line
    plies,         \* calls of do_move for the last line
    accepted,      \* opponent moves accepted so far
    moveLines,     \* move lines printed so far
    reply,         \* the move printed as a reply in the last pass, MOVE_NONE if none
    trail,         \* gamePly and history length at each step of the last pass
    fnOp,          \* the function applied on its own: "none", "think",
                   \* "roundtrip", "decode", "encode"
    fnPos,         \* its position argument
    fnArg,         \* its move argument
    fnText,        \* the text UCI::move produced
    fnResult       \* its result

loopVars == <<pc, us, UCI_Chess960, pos, states, cmd, token, m, eof, out,
              decoded, thought, plies, accepted, moveLines, reply, trail>>

fnVars == <<fnOp, fnPos, fnArg, fnText, fnResult>>

vars == <<pc, us, UCI_Chess960, pos, states, cmd, token, m, eof, out,
          decoded, thought, plies, accepted, moveLines, reply, trail,
          fnOp, fnPos, fnArg, fnText, fnResult>>

Colors == {"white", "black", "green"}

\* UCI::loop up to the test of argv[1]
InitLoop ==
    /\ pc = "start"
    /\ us \in Colors
    /\ UCI_Chess960 \in BOOLEAN
    /\ pos = StartPos
    /\ states = <<0>>
    /\ cmd = <<>>
    /\ token = <<>>
    /\ m = MOVE_NONE
    /\ eof = FALSE
    /\ out = <<>>
    /\ decoded = FALSE
    /\ thought = 0
    /\ plies = 0
    /\ accepted = 0
    /\ moveLines = 0
    /\ reply = MOVE_NONE
    /\ trail = <<>>

InitFnIdle ==
    /\ fnOp = "none"
    /\ fnPos = StartPos
    /\ fnArg = MOVE_NONE
    /\ fnText = <<>>
    /\ fnResult = MOVE_NONE

Init == InitLoop /\ InitFnIdle

(***************************************************************************)
(* Start-up: UCI::loop before the do-while, and make_initial_move.         *)
(***************************************************************************)
\* one step of a pass: what was done, and gamePly and the length of the
\* history after it
Step(op, p, s) == [op |-> op, ply |-> p.ply, len |-> Len(s)]

\* the old history kept and extended
Rebase_Keep(s, p) == s

\* a fresh history of two elements
Rebase_Two(s, p) == <<p.ply, p.ply>>

\* states = StateListPtr(new std::deque<StateInfo>(1)): the old history is
\* dropped for a fresh one of a single element, which pos.set then uses
Rebase(s, p) == <<p.ply>>

\* every color opens the game
OpensGame_Always(color) == TRUE

\* a color the loop never tests for
OpensGame_Black(color) == color = "black"

\* the test  us == "white"
OpensGame(color) == color = "white"

\* make_initial_move(pos, states), called when argv[1] is "white"
StartWhite ==
    /\ pc = "start"
    /\ OpensGame(us)
    /\ \E best \in StartThinkingOutcomes(pos) :
          IF best = Abort
          THEN /\ pc' = "aborted"
               /\ thought' = 1
               /\ trail' = <<Step("enter", pos, states)>>
               /\ UNCHANGED <<pos, states, out, plies, moveLines, reply>>
          ELSE \E next \in GameLists :
               /\ out' = <<move(best, FALSE)>>
               /\ reply' = best
               /\ states' = Append(states, pos.ply + 1)
               /\ pos' = do_move(pos, best, next)
               /\ trail' = <<Step("enter", pos, states),
                             Step("self", do_move(pos, best, next),
                                  Append(states, pos.ply + 1))>>
               /\ thought' = 1
               /\ plies' = 1
               /\ moveLines' = moveLines + 1
               /\ pc' = "read"
    /\ UNCHANGED <<us, UCI_Chess960, cmd, token, m, eof, decoded, accepted>>
    /\ UNCHANGED fnVars

\* any other argv[1]: straight into the loop
StartOther ==
    /\ pc = "start"
    /\ ~OpensGame(us)
    /\ pc' = "read"
    /\ UNCHANGED <<us, UCI_Chess960, pos, states, cmd, token, m, eof, out,
                   decoded, thought, plies, accepted, moveLines, reply, trail>>
    /\ UNCHANGED fnVars

(***************************************************************************)
(* One pass of the do-while of UCI::loop, from getline to the loop test.   *)
(***************************************************************************)
\* what the channel delivers to one getline: a line, or its end
Deliveries ==
    [eofHit : {FALSE}, line : InputLines] \cup [eofHit : {TRUE}, line : {<<>>}]

\* the chain with "black" forgotten
Branch_OnlyWhite(tok, p) ==
    IF tok = WhiteText THEN "color"
    ELSE IF to_antichess_move(p, tok) # MOVE_NONE THEN "move"
    ELSE IF LowerPromotion(tok) # <<>> /\ LowerPromotion(tok)[1] # "#" THEN "unknown"
    ELSE "silent"

\* the chain without the test for a comment
Branch_NoComment(tok, p) ==
    IF tok = WhiteText \/ tok = BlackText THEN "color"
    ELSE IF to_antichess_move(p, tok) # MOVE_NONE THEN "move"
    ELSE IF LowerPromotion(tok) # <<>> THEN "unknown"
    ELSE "silent"

\* the chain testing the decoded move against the wrong sentinel
Branch_WrongSentinel(tok, p) ==
    IF tok = WhiteText \/ tok = BlackText THEN "color"
    ELSE IF to_antichess_move(p, tok) # MOVE_NULL THEN "move"
    ELSE IF LowerPromotion(tok) # <<>> /\ LowerPromotion(tok)[1] # "#" THEN "unknown"
    ELSE "silent"

\* the branch of the if-else chain taken for first word tok in position p
Branch(tok, p) ==
    IF tok = WhiteText \/ tok = BlackText THEN "color"
    ELSE IF to_antichess_move(p, tok) # MOVE_NONE THEN "move"
    ELSE IF LowerPromotion(tok) # <<>> /\ LowerPromotion(tok)[1] # "#" THEN "unknown"
    ELSE "silent"

\* the test of the do-while
LoopTest(tok) == IF tok # QuitText THEN "read" ELSE "done"

\* token is "white" or "black"
ReadColor ==
    /\ pc = "read"
    /\ \E d \in Deliveries :
          LET c   == GetLine(d.eofHit, d.line)
              tok == FirstToken(c)
          IN  /\ Branch(tok, pos) = "color"
              /\ eof' = d.eofHit
              /\ cmd' = c
              /\ token' = tok
              /\ out' = <<SkipText>>
              /\ decoded' = FALSE
              /\ thought' = 0
              /\ plies' = 0
              /\ trail' = <<Step("enter", pos, states)>>
              /\ reply' = MOVE_NONE
              /\ pc' = LoopTest(tok)
    /\ UNCHANGED <<us, UCI_Chess960, pos, states, m, accepted, moveLines>>
    /\ UNCHANGED fnVars

\* token decodes to a move: move_and_counter(pos, m, states)
ReadMove ==
    /\ pc = "read"
    /\ pos.ply + 2 <= MaxPly
    /\ \E d \in Deliveries :
          LET c    == GetLine(d.eofHit, d.line)
              tok  == FirstToken(c)
              mv   == to_antichess_move(pos, tok)
              base == set_fen(pos, UCI_Chess960)
          IN  /\ Branch(tok, pos) = "move"
              /\ eof' = d.eofHit
              /\ cmd' = c
              /\ token' = LowerPromotion(tok)
              /\ m' = mv
              /\ decoded' = TRUE
              /\ accepted' = accepted + 1
              /\ thought' = 1
              /\ \E next1 \in GameLists :
                    LET s0 == Rebase(states, base)
                        p1 == do_move(base, mv, next1)
                        s1 == Append(s0, p1.ply)
                        t1 == <<Step("enter", pos, states),
                                Step("rebase", base, s0),
                                Step("opponent", p1, s1)>>
                    IN  \E best \in StartThinkingOutcomes(p1) :
                           IF best = Abort
                           THEN /\ pc' = "aborted"
                                /\ pos' = p1
                                /\ states' = s1
                                /\ out' = <<>>
                                /\ plies' = 1
                                /\ trail' = t1
                                /\ reply' = MOVE_NONE
                                /\ UNCHANGED moveLines
                           ELSE \E next2 \in GameLists :
                                /\ out' = <<move(best, FALSE)>>
                                /\ reply' = best
                                /\ states' = Append(s1, p1.ply + 1)
                                /\ pos' = do_move(p1, best, next2)
                                /\ trail' = Append(t1,
                                      Step("self", do_move(p1, best, next2),
                                           Append(s1, p1.ply + 1)))
                                /\ plies' = 2
                                /\ moveLines' = moveLines + 1
                                /\ pc' = LoopTest(LowerPromotion(tok))
    /\ UNCHANGED <<us, UCI_Chess960>>
    /\ UNCHANGED fnVars

\* token is not empty, is no comment and matched nothing
ReadUnknown ==
    /\ pc = "read"
    /\ \E d \in Deliveries :
          LET c   == GetLine(d.eofHit, d.line)
              tok == FirstToken(c)
          IN  /\ Branch(tok, pos) = "unknown"
              /\ eof' = d.eofHit
              /\ cmd' = c
              /\ token' = LowerPromotion(tok)
              /\ m' = to_antichess_move(pos, tok)
              /\ out' = <<UnknownPrefix \o c>>
              /\ decoded' = TRUE
              /\ thought' = 0
              /\ plies' = 0
              /\ trail' = <<Step("enter", pos, states)>>
              /\ reply' = MOVE_NONE
              /\ pc' = LoopTest(LowerPromotion(tok))
    /\ UNCHANGED <<us, UCI_Chess960, pos, states, accepted, moveLines>>
    /\ UNCHANGED fnVars

\* token is empty or starts with '#'
ReadSilent ==
    /\ pc = "read"
    /\ \E d \in Deliveries :
          LET c   == GetLine(d.eofHit, d.line)
              tok == FirstToken(c)
          IN  /\ Branch(tok, pos) = "silent"
              /\ eof' = d.eofHit
              /\ cmd' = c
              /\ token' = LowerPromotion(tok)
              /\ m' = to_antichess_move(pos, tok)
              /\ out' = <<>>
              /\ decoded' = TRUE
              /\ thought' = 0
              /\ plies' = 0
              /\ trail' = <<Step("enter", pos, states)>>
              /\ reply' = MOVE_NONE
              /\ pc' = LoopTest(LowerPromotion(tok))
    /\ UNCHANGED <<us, UCI_Chess960, pos, states, accepted, moveLines>>
    /\ UNCHANGED fnVars

Next == StartWhite \/ StartOther \/ ReadColor \/ ReadMove \/ ReadUnknown \/ ReadSilent

Spec == Init /\ [][Next]_vars

(***************************************************************************)
(* The selector and the codec applied on their own to every position.      *)
(***************************************************************************)
InitFn ==
    /\ InitLoop
    /\ us = "black"
    /\ UCI_Chess960 = FALSE
    /\ fnOp = "none"
    /\ fnPos \in FnPositions
    /\ fnArg = MOVE_NONE
    /\ fnText = <<>>
    /\ fnResult = MOVE_NONE

\* start_thinking(fnPos)
Think ==
    /\ fnOp = "none"
    /\ fnOp' = "think"
    /\ fnResult' \in StartThinkingOutcomes(fnPos)
    /\ UNCHANGED <<fnPos, fnArg, fnText>>
    /\ UNCHANGED loopVars

\* UCI::to_antichess_move(fnPos, UCI::move(mv, fnPos.is_chess960()))
RoundTrip ==
    /\ fnOp = "none"
    /\ \E mv \in SeqRange(fnPos.legal) :
          /\ fnArg' = mv
          /\ fnText' = move(mv, fnPos.chess960)
          /\ fnResult' = to_antichess_move(fnPos, move(mv, fnPos.chess960))
    /\ fnOp' = "roundtrip"
    /\ UNCHANGED fnPos
    /\ UNCHANGED loopVars

\* UCI::to_antichess_move(fnPos, text)
Decode ==
    /\ fnOp = "none"
    /\ \E text \in DecodeTexts :
          /\ fnText' = text
          /\ fnResult' = to_antichess_move(fnPos, text)
    /\ fnOp' = "decode"
    /\ UNCHANGED <<fnPos, fnArg>>
    /\ UNCHANGED loopVars

\* UCI::move(mv, fnPos.is_chess960())
Encode ==
    /\ fnOp = "none"
    /\ \E mv \in EncodeMoves :
          /\ fnArg' = mv
          /\ fnText' = move(mv, fnPos.chess960)
    /\ fnOp' = "encode"
    /\ UNCHANGED <<fnPos, fnResult>>
    /\ UNCHANGED loopVars

NextFn == Think \/ RoundTrip \/ Decode \/ Encode

SpecFn == InitFn /\ [][NextFn]_vars

(***************************************************************************)
(* Properties.                                                             *)
(***************************************************************************)
\* the last line processed was accepted as an opponent move
AcceptedLast == pc # "start" /\ decoded /\ m # MOVE_NONE

\* the opening move has been made
Opened == IF us = "white" /\ pc # "start" THEN 1 ELSE 0

\* C1: every accepted opponent move is followed, before the next read, by
\* one call of the selector, one printed reply and the reply applied, so
\* the printed move lines number the accepted moves (plus the opening
\* move as white) and the position is two plies further per accepted move.
C1_ReplyPerAcceptedMove ==
    /\ AcceptedLast => (thought = 1 /\ Len(out) = 1 /\ plies = 2)
    /\ moveLines = accepted + Opened
    /\ pos.ply = 2 * accepted + Opened

\* C2: the loop ends on the token quit without printing a line for it.
C2_QuitPrintsNothing ==
    (pc = "done" /\ token = QuitText) => out = <<>>

\* C3: a first word that is no color, no move, not empty and no comment
\* (and not quit) prints  Unknown command: '<line>'  with both quotes, and
\* the loop goes on.
C3_UnknownCommandQuoted ==
    (/\ pc \in {"read", "done"}
     /\ decoded
     /\ m = MOVE_NONE
     /\ token # <<>>
     /\ token[1] # "#"
     /\ token # QuitText)
       => (out = <<UnknownPrefix \o cmd \o <<"'">>>> /\ pc = "read")

\* C4: a read that finds the channel exhausted is processed as the line
\* quit, and the loop has ended, normally, when that pass is over.
C4_EndOfInputQuits ==
    eof => (cmd = QuitText /\ token = QuitText /\ pc = "done")

C4_Witness ==
    eof /\ pc = "done" /\ accepted > 0

\* C5: started as white, one move line is printed and one ply is played
\* before the first read; started as anything else, nothing is printed and
\* the first read finds the starting position.
C5_Startup ==
    [][pc = "start" =>
         IF us = "white"
         THEN /\ pc' = "read"
              /\ Len(out') = 1
              /\ \E i \in 1..Len(pos.legal) : out'[1] = move(pos.legal[i], FALSE)
              /\ moveLines' = 1
              /\ pos'.ply = 1
              /\ pos'.stm = "b"
         ELSE /\ pc' = "read"
              /\ out' = <<>>
              /\ moveLines' = 0
              /\ pos' = StartPos]_vars

C5_Witness ==
    pc = "read" /\ us = "white" /\ accepted = 0 /\ cmd = <<>> /\ ~decoded
       /\ pos.ply = 1 /\ Len(out) = 1

\* C6: a line whose first word is white or black prints exactly skip,
\* leaves position and history alone, is not decoded as a move, and the
\* loop goes on.
C6_ColorTokenSkips ==
    [][(pc = "read" /\ FirstToken(cmd') \in {WhiteText, BlackText}) =>
          (/\ out' = <<SkipText>>
           /\ pos' = pos
           /\ states' = states
           /\ ~decoded'
           /\ plies' = 0
           /\ thought' = 0
           /\ pc' = "read")]_vars

C6_Witness ==
    pc = "read" /\ token = BlackText /\ out = <<SkipText>> /\ accepted > 0

\* C7: an empty line, a line of blanks, or a line whose first word starts
\* with # prints nothing and the loop goes on.
C7_BlankAndCommentSilent ==
    [][(pc = "read" /\ (FirstToken(cmd') = <<>> \/ FirstToken(cmd')[1] = "#")) =>
          (out' = <<>> /\ pc' = "read")]_vars

C7_Witness ==
    pc = "read" /\ decoded /\ out = <<>> /\ accepted > 0
       /\ Len(cmd) > 0 /\ cmd[1] = "#"

\* no capture move is also legal
NoLegalCapture(p) == SeqRange(p.captures) \cap SeqRange(p.legal) = {}

\* C8: with at least one legal move the selector returns a legal move,
\* except that it returns the first raw capture when captures exist and
\* none of them is legal.
C8_SelectorTotal ==
    (fnOp = "think" /\ Len(fnPos.legal) >= 1) =>
        IF fnPos.captures # <<>> /\ NoLegalCapture(fnPos)
        THEN fnResult = fnPos.captures[1]
        ELSE fnResult \in SeqRange(fnPos.legal)

C8_Witness ==
    /\ fnOp = "think"
    /\ Len(fnPos.legal) >= 1
    /\ Len(fnPos.captures) = 2
    /\ NoLegalCapture(fnPos)
    /\ fnResult = fnPos.captures[1]

\* C9: with no legal move the selector returns the "no move" sentinel,
\* and does not fail.
C9_TerminalYieldsNone ==
    (fnOp = "think" /\ Len(fnPos.legal) = 0) => fnResult = MOVE_NONE

Applications == { i \in 1..Len(trail) : trail[i].op \in {"opponent", "self"} }

\* the step before the operation that step i completes: an opponent-move
\* application starts with the rebase, a self-move application with the
\* emplace_back
Before(i) == IF trail[i].op = "opponent" THEN trail[i - 2] ELSE trail[i - 1]

\* C11 as stated: each application of an opponent move or of a self-move
\* leaves one more ply and a history one longer than before the operation,
\* and the history never shrinks.
C11_GrowsByOne ==
    /\ \A i \in Applications :
          /\ trail[i].ply = Before(i).ply + 1
          /\ trail[i].len = Before(i).len + 1
    /\ \A i \in 2..Len(trail) : trail[i].len >= trail[i - 1].len

\* C11 amended: each application leaves one more ply and a history one
\* longer than it was when the move was applied; the opponent's move is
\* applied to a fresh history of one element, whatever the history was.
C11_GrowsByOneAfterRebase ==
    /\ \A i \in Applications :
          /\ trail[i].ply = trail[i - 1].ply + 1
          /\ trail[i].len = trail[i - 1].len + 1
    /\ \A i \in 1..Len(trail) :
          trail[i].op = "rebase" =>
              (trail[i].len = 1 /\ trail[i].ply = trail[i - 1].ply)
    /\ Len(trail) > 0 => trail[Len(trail)].len = Len(states)

C11_Witness ==
    /\ pc = "read"
    /\ Len(trail) = 4
    /\ trail[1].len = 3
    /\ trail[2].len = 1
    /\ trail[3].len = 2
    /\ trail[4].len = 3
    /\ trail[4].ply = trail[1].ply + 2

\* C12: the loop stops only on a line whose first word is quit; no other
\* line, an accepted move in any position included, stops or aborts it.
C12_OnlyQuitStops ==
    pc \in {"done", "aborted"} => (pc = "done" /\ token = QuitText)

\* the moves that are both captures and legal
LegalCaptures(p) == SeqRange(p.captures) \cap SeqRange(p.legal)

\* C13: when some capture is legal the selector returns a legal capture;
\* it returns a legal move that is no capture only when the capture list
\* is empty.
C13_CapturePreference ==
    fnOp = "think" =>
       /\ LegalCaptures(fnPos) # {} => fnResult \in LegalCaptures(fnPos)
       /\ fnResult \in (SeqRange(fnPos.legal) \ SeqRange(fnPos.captures))
             => fnPos.captures = <<>>

C13_Witness ==
    /\ fnOp = "think"
    /\ Len(fnPos.legal) = 2
    /\ Len(fnPos.captures) = 2
    /\ fnPos.captures[1] \notin SeqRange(fnPos.legal)
    /\ fnPos.legal[1] \notin SeqRange(fnPos.captures)
    /\ fnResult = fnPos.captures[2]
    /\ fnResult = fnPos.legal[2]

\* the moves of list whose text in the mode of position p is text
Encoding(list, p, text) ==
    { mv \in SeqRange(list) : move(mv, p.chess960) = text }

\* what the decoder returned for text, against the moves whose text is txt
DecodedAs(txt) ==
    /\ Encoding(fnPos.legal, fnPos, txt) # {}
          => fnResult \in Encoding(fnPos.legal, fnPos, txt)
    /\ fnResult \in (SeqRange(fnPos.captures) \ SeqRange(fnPos.legal))
          => (/\ Encoding(fnPos.legal, fnPos, txt) = {}
              /\ fnResult \in Encoding(fnPos.captures, fnPos, txt))
    /\ fnResult = MOVE_NONE
          <=> (Encoding(fnPos.legal, fnPos, txt) = {}
               /\ Encoding(fnPos.captures, fnPos, txt) = {})
    /\ fnResult \in SeqRange(fnPos.legal) \cup SeqRange(fnPos.captures)
                    \cup {MOVE_NONE}

\* C14 as stated: the decoder returns a legal move whose text is the text
\* given when there is one, a capture move only when there is none, and
\* the sentinel exactly when no legal or capture move has that text.
C14_DecodeByText ==
    fnOp = "decode" => DecodedAs(fnText)

\* the text with its fifth character, when it is the last, in lower case
FifthLowered(text) ==
    IF Len(text) = 5 THEN SubSeq(text, 1, 4) \o <<ToLower(text[5])>> ELSE text

\* C14 amended: the same, for the text given with the fifth character of
\* a five-character text lower-cased.
C14_DecodeByLoweredText ==
    fnOp = "decode" => DecodedAs(FifthLowered(fnText))

C14_Witness ==
    /\ fnOp = "decode"
    /\ fnText = <<"a","7","a","8","Q">>
    /\ fnResult = a7a8q
    /\ a7a8q \notin SeqRange(fnPos.legal)
    /\ fnPos.legal # <<>>

\* C16: a castling move is rendered, outside the relaxed mode, with the
\* destination on file g when the rook's square is greater than the king's
\* and on file c otherwise, on the rank of the origin; in the relaxed mode,
\* and for every other move, the destination is rendered as it is.
C16_CastlingEncoding ==
    fnOp = "encode" =>
       /\ SubSeq(fnText, 1, 2) = square(fnArg.from)
       /\ IF fnArg.type = "CASTLING" /\ ~fnPos.chess960
          THEN /\ fnText[3] = (IF fnArg.to > fnArg.from THEN "g" ELSE "c")
               /\ fnText[4] = fnText[2]
          ELSE SubSeq(fnText, 3, 4) = square(fnArg.to)

C16_Witness ==
    /\ fnOp = "encode"
    /\ fnArg = e8a8
    /\ ~fnPos.chess960
    /\ fnText = <<"e","8","c","8">>

\* a character tolower changes
IsUpper(c) == ToLower(c) # c

\* C17: a five-character token with an upper-case fifth character decodes
\* to what the token with that character lower-cased decodes to; a token
\* with an upper-case character among its first four decodes to no move.
C17_PromotionCase ==
    fnOp = "decode" =>
       /\ Len(fnText) = 5
             => fnResult = to_antichess_move(fnPos, FifthLowered(fnText))
       /\ (\E i \in 1..4 : i <= Len(fnText) /\ IsUpper(fnText[i]))
             => fnResult = MOVE_NONE

C17_Witness ==
    /\ fnOp = "decode"
    /\ fnText = <<"a","7","a","8","N">>
    /\ fnResult = a7a8n
    /\ fnPos.legal = <<a7a8q, a7a8n>>

\* the last pass printed a reply move
Replied == Len(trail) > 0 /\ trail[Len(trail)].op = "self"

\* C15: every reply printed is the text of the reply move in the castling
\* mode of the position it was chosen in, the mode the decoder uses.
C15_ReplyInActiveMode ==
    Replied => out = <<move(reply, pos.chess960)>>

\* C18: a line that is not accepted as an opponent move leaves the
\* position, the side to move and the history as they were.
C18_RejectedLineFrame ==
    [][(pc = "read" /\ to_antichess_move(pos, FirstToken(cmd')) = MOVE_NONE) =>
          (pos' = pos /\ states' = states)]_vars

C18_Witness ==
    /\ pc = "read"
    /\ accepted > 0
    /\ cmd = <<"e","1","g","1">>
    /\ m = MOVE_NONE
    /\ out = <<UnknownPrefix \o cmd>>
    /\ trail = <<Step("enter", pos, states)>>
    /\ Len(states) = 3

\* C19: the history never holds more than 3 elements, and when the loop
\* reads a line it holds 1 (no move applied yet), 2 (only the opening move
\* as white) or 3 (after any accepted opponent move).
C19_BoundedHistory ==
    /\ Len(states) <= 3
    /\ pc = "read" =>
          Len(states) = (IF accepted > 0 THEN 3
                         ELSE IF us = "white" THEN 2 ELSE 1)

C19_Witness ==
    pc = "read" /\ accepted = 2 /\ Len(states) = 3 /\ pos.ply >= 4

\* C20: when the loop reads a line the opponent is to move: black if the
\* engine was started as white, white otherwise.
C20_OpponentToMove ==
    pc = "read" => pos.stm = (IF us = "white" THEN "b" ELSE "w")

C20_Witness ==
    /\ pc = "read"
    /\ us = "white"
    /\ accepted = 1
    /\ pos.stm = "b"
    /\ token = WhiteText

====
